---- MODULE Spec2Model ----
(***************************************************************************)
(* The App component of the repository, in its revisions:                  *)
(*   "App"      src/src/App.jsx        token fetched once on mount, upload *)
(*   "part_000" src/unnamed/part_000   fixed token, no upload              *)
(*   "part_001" src/unnamed/part_001   token fetched per getImage, upload  *)
(*   "part_002" src/unnamed/part_002   as part_000, more draw tools        *)
(* The state is the React state of App (useState / useRef), the requests   *)
(* in flight, and what the external services have been asked so far.       *)
(***************************************************************************)
EXTENDS Integers, Sequences, FiniteSets, TLC

\* ------------------------------------------------------------------ bounds
\* longest ring drawn under SpecDraw (the bounds fold on its own)
MaxRing == 3
\* clicks on "Fetch Image" in one session
MaxFetches == 2
\* entries of an uploaded archive
MaxEntries == 3

\* ------------------------------------------------------------ input values
Revisions == {"App", "part_000", "part_001", "part_002"}

\* longitudes and latitudes are drawn from different sets, so that a swap of
\* the two axes changes the result
Lngs == {-2, 1}
Lats == {-1, 2}
Coords == Lngs \X Lats

\* JavaScript Infinity and -Infinity: above and below every coordinate
Infinity == 3
NegInfinity == -3

RingsUpTo(n) == UNION {[1..k -> Coords] : k \in 0..n}

\* the rings drawn under Spec and SpecUpload: none, one point, two points
AppRings == {<<>>, << <<-2, -1>> >>, << <<1, -1>>, <<-2, 2>> >>}

\* ------------------------------------------------------------- JS values
\* null (useState(null)) for geojson; a GeoJSON object otherwise
NullGeojson == [kind |-> "null"]
\* null for aoiBounds; otherwise <<southwest, northeast>>, each <<lat, lng>>
NullBounds == <<>>
\* "" for imageUrl; otherwise the blob URL of the response to request i
NoImage == 0
\* undefined (a missing property, a function that returned nothing)
Undefined == [type |-> "undefined"]

Truthy(token) == token \notin {"", "undefined"}

MathMin(a, b) == IF a < b THEN a ELSE b
MathMax(a, b) == IF a > b THEN a ELSE b

\* -------------------------------------------------- the bounds fold (draw)
\* the seed of the reduce: [[Infinity, Infinity], [-Infinity, -Infinity]]
FoldSeed == << <<Infinity, Infinity>>, <<NegInfinity, NegInfinity>> >>

\* a faulty variant of FoldStep: Math.min where the maximum latitude is kept
FoldStepMinOnly(acc, c) ==
    << <<MathMin(acc[1][1], c[1]), MathMin(acc[1][2], c[2])>>,
       <<MathMax(acc[2][1], c[1]), MathMin(acc[2][2], c[2])>> >>

\* a faulty variant of FoldStep: the maximum is overwritten by the coordinate
\* at hand instead of being compared with it
FoldStepLastMax(acc, c) ==
    << <<MathMin(acc[1][1], c[1]), MathMin(acc[1][2], c[2])>>,
       <<c[1], c[2]>> >>

\* a faulty variant of FoldStep: the pair is read as [lat, lng]
FoldStepSwapped(acc, c) ==
    << <<MathMin(acc[1][1], c[2]), MathMin(acc[1][2], c[1])>>,
       <<MathMax(acc[2][1], c[2]), MathMax(acc[2][2], c[1])>> >>

\* one step of the reduce: ([min, max], [lng, lat]) => [[..], [..]]
FoldStep(acc, c) ==
    << <<MathMin(acc[1][1], c[1]), MathMin(acc[1][2], c[2])>>,
       <<MathMax(acc[2][1], c[1]), MathMax(acc[2][2], c[2])>> >>

\* coordinates[0].reduce(step, seed): a left fold over the ring
RECURSIVE Reduce(_, _)
Reduce(ring, acc) ==
    IF ring = <<>> THEN acc
    ELSE Reduce(Tail(ring), FoldStep(acc, Head(ring)))

\* [[minLng, minLat], [maxLng, maxLat]] destructured, then stored as
\* [[minLat, minLng], [maxLat, maxLng]]
DrawBounds(ring) ==
    LET r == Reduce(ring, FoldSeed)
        minLng == r[1][1]
        minLat == r[1][2]
        maxLng == r[2][1]
        maxLat == r[2][2]
    IN << <<minLat, minLng>>, <<maxLat, maxLng>> >>

\* ------------------------------------------------------------------ state
VARIABLES
    rev,          \* which revision of the component runs
    imageUrl,     \* useState(""): NoImage or the request whose response it is
    aoiBounds,    \* useState(null)
    geojson,      \* useState(null)
    accessToken,  \* useState("") (App only)
    tokenFetch,   \* the mount effect's GET (App only): "none", "pending", "done"
    reqs,         \* the getImage calls that passed the guard, in click order
    nFetch,       \* clicks on "Fetch Image" so far
    gets,         \* GETs issued to the credential provider so far
    mapView,      \* the map's view: "initial" or the bounds last fitted
    file,         \* useState(null): the file chosen in the file input
    upload,       \* the handleFileSubmit call in progress or last finished
    startDate,    \* useState(new Date("2023-10-01"))
    endDate,      \* useState(new Date("2023-10-31"))
    selectedEvalscript  \* useState(0)

vars == <<rev, imageUrl, aoiBounds, geojson, accessToken, tokenFetch, reqs,
          nFetch, gets, mapView, file, upload, startDate, endDate,
          selectedEvalscript>>

\* the state of getImage and of the credential provider
fetchVars == <<accessToken, tokenFetch, reqs, nFetch, gets>>
\* the state of the upload channel
uploadVars == <<file, upload>>
\* what the date pickers and the evalscript buttons set
settingsVars == <<startDate, endDate, selectedEvalscript>>

\* ImageLayer: the overlay rendered for the current state, or Undefined
Overlay(url, bnds) ==
    IF url # NoImage /\ bnds # NullBounds
    THEN [type |-> "ImageOverlay", url |-> url, bounds |-> bnds]
    ELSE Undefined

\* ImageLayer runs on every render of App: map.fitBounds(aoiBounds) when
\* both are set
ViewAfterRender(url, bnds, view) ==
    IF url # NoImage /\ bnds # NullBounds THEN bnds ELSE view

\* ------------------------------------------------------- handleDrawCreate
\* the shapes the revision's draw toolbar can emit (EditControl draw={...}):
\* polygon and rectangle give a Polygon, circle / marker / circlemarker a
\* Point, polyline a LineString
DrawTools(r) ==
    CASE r = "App"      -> {"Polygon"}
      [] r = "part_000" -> {"Polygon", "Point"}
      [] OTHER          -> {"Polygon", "Point", "LineString"}

\* layer.toGeoJSON() of a drawn layer: a Feature
Feature(type, ring) == [kind |-> "Feature", type |-> type, ring |-> ring]

\* a faulty variant of HandleDrawCreate: a new shape clears the image
HandleDrawCreateClearsImage(type, ring) ==
    IF type = "Polygon"
    THEN /\ aoiBounds' = DrawBounds(ring)
         /\ geojson' = Feature(type, ring)
         /\ imageUrl' = NoImage
         /\ UNCHANGED mapView
    ELSE UNCHANGED <<aoiBounds, geojson, imageUrl, mapView>>

\* handleDrawCreate(e). For a Point coordinates[0] is a number and has no
\* reduce; for a LineString coordinates[0] is one [lng, lat] pair and the
\* callback cannot destructure a number: both throw before any setState.
\* The handler sets the bounds and the geometry and nothing else: the image
\* stays, and the render that follows runs ImageLayer with the new bounds.
HandleDrawCreate(type, ring) ==
    IF type = "Polygon"
    THEN /\ aoiBounds' = DrawBounds(ring)
         /\ geojson' = Feature(type, ring)
         /\ imageUrl' = imageUrl
         /\ mapView' = ViewAfterRender(imageUrl, DrawBounds(ring), mapView)
    ELSE UNCHANGED <<aoiBounds, geojson, imageUrl, mapView>>

\* a shape is finished on the map (Spec, SpecUpload)
DrawCreate ==
    /\ \E type \in DrawTools(rev), ring \in AppRings :
          HandleDrawCreate(type, ring)
    /\ UNCHANGED <<rev, settingsVars, fetchVars, uploadVars>>

\* a shape is finished on the map (SpecDraw: every ring up to MaxRing)
DrawCreateAny ==
    /\ \E type \in DrawTools(rev), ring \in RingsUpTo(MaxRing) :
          HandleDrawCreate(type, ring)
    /\ UNCHANGED <<rev, settingsVars, fetchVars, uploadVars>>

\* ------------------------------------------------- the credential provider
\* what the GET to /auth/get-token can come back with: a transport failure,
\* or a response with a status and a body
TokenBodies == {"token", "access_token", "none", "notjson"}
TokenResponses ==
    {[net |-> "error", ok |-> FALSE, body |-> "none"]} \cup
    [net : {"response"}, ok : BOOLEAN, body : TokenBodies]

\* the value of a token field the body holds
FieldValue(resp) == "tok"

\* fetchAccessToken (App, on mount): no response.ok check; data.token.
\* <<whether the catch ran, the value given to setAccessToken>>
FetchAccessTokenResult(resp) ==
    IF resp.net = "error" \/ resp.body = "notjson" THEN <<TRUE, "">>
    ELSE IF resp.body = "token" THEN <<FALSE, FieldValue(resp)>>
    ELSE <<FALSE, "undefined">>

\* getToken (part_001): throws on !response.ok, reads json.access_token, and
\* returns undefined from the catch. <<whether the catch ran, the value>>
GetTokenResult(resp) ==
    IF resp.net = "error" \/ ~resp.ok \/ resp.body = "notjson"
    THEN <<TRUE, "undefined">>
    ELSE IF resp.body = "access_token" THEN <<FALSE, FieldValue(resp)>>
    ELSE <<FALSE, "undefined">>

\* the mount effect's GET comes back (App); the catch only logs
TokenResponse ==
    /\ tokenFetch = "pending"
    /\ \E resp \in TokenResponses :
         LET r == FetchAccessTokenResult(resp) IN
         /\ tokenFetch' = "done"
         /\ IF r[1]
            THEN UNCHANGED <<accessToken, mapView>>
            ELSE /\ accessToken' = r[2]
                 /\ mapView' = ViewAfterRender(imageUrl, aoiBounds, mapView)
    /\ UNCHANGED <<rev, settingsVars, imageUrl, aoiBounds, geojson, reqs, nFetch, gets,
                   uploadVars>>

\* ----------------------------------------------------------------- getImage
\* geojson.geometry: the geometry of a Feature; a FeatureCollection has none
Geometry(gj) ==
    IF gj.kind = "Feature"
    THEN [type |-> gj.type, ring |-> gj.ring]
    ELSE Undefined

\* the guard at the head of getImage
EarlyReturn(r, gj, token) ==
    IF r = "App" THEN gj = NullGeojson \/ ~Truthy(token)
    ELSE gj = NullGeojson

\* a faulty variant of GetImageReturn: getToken() called before the guard
GetImageReturnAfterToken ==
    /\ gets' = gets + 1
    /\ UNCHANGED <<reqs, imageUrl, aoiBounds, geojson, mapView>>

\* the early return: console.error and nothing else
GetImageReturn ==
    UNCHANGED <<reqs, gets, imageUrl, aoiBounds, geojson, mapView>>

\* the POST has not come back
NoResponse == [net |-> "none", ok |-> FALSE, statusText |-> ""]

\* evalscripts.json, the bundled catalog: an ordered list of entries, each
\* with a name and a script text (the icon plays no part); never written
Catalog == << [name |-> "name0", script |-> "script0"],
              [name |-> "name1", script |-> "script1"] >>

\* array[index] with a JavaScript index, counted from 0
At(array, index) == array[index + 1]

\* a Date is an instant, counted in hours from 2023-10-01T00:00Z
\* new Date("2023-10-01") and new Date("2023-10-31"): midnight UTC
InitialStartDate == 0
InitialEndDate == 720
\* what a date picker hands to onChange: local midnight of the day picked,
\* here 2023-10-02 and 2023-11-01 in a zone two hours ahead of UTC
PickedDates == {22, 742}

\* date.toISOString(): the instant written as a UTC day (counted from
\* 2023-10-01) and a UTC hour, whatever the zone it was picked in
ToISOString(date) == [day |-> date \div 24, hour |-> date % 24]

\* output: {width: 512, height: 512}
Width == 512
Height == 512

\* what a call of getImage holds from the render it was created in: the
\* geometry and, for the record, the bounds then current, the time range,
\* the output size and the script text; then where the call stands, the
\* credential it sends, the POSTs it has issued, what came back and the
\* text of the error it ended with
Request(st, token, posts) ==
    [st |-> st, geometry |-> Geometry(geojson), reqBounds |-> aoiBounds,
     from |-> ToISOString(startDate), to |-> ToISOString(endDate),
     width |-> Width, height |-> Height,
     evalscript |-> At(Catalog, selectedEvalscript).script,
     token |-> token, posts |-> posts, response |-> NoResponse, error |-> ""]

\* the Authorization header's credential
BearerOf(r, token) == IF r \in {"part_000", "part_002"} THEN "static" ELSE token

\* "Fetch Image" is clicked
GetImage ==
    /\ nFetch < MaxFetches
    /\ nFetch' = nFetch + 1
    /\ IF EarlyReturn(rev, geojson, accessToken)
       THEN GetImageReturn
       ELSE /\ IF rev = "part_001"
               THEN \* await getToken(): the GET is issued
                    /\ reqs' = Append(reqs, Request("token", "", 0))
                    /\ gets' = gets + 1
               ELSE \* fetch(process, {method: "POST", ...})
                    /\ reqs' = Append(reqs,
                                 Request("sent", BearerOf(rev, accessToken), 1))
                    /\ UNCHANGED gets
            /\ UNCHANGED <<imageUrl, aoiBounds, geojson, mapView>>
    /\ UNCHANGED <<rev, settingsVars, accessToken, tokenFetch, uploadVars>>

\* getToken's GET comes back (part_001) and getImage goes on to the POST
\* whatever getToken returned: "Bearer " + token
GetTokenDone(i, resp) ==
    LET r == GetTokenResult(resp) IN
    reqs' = [reqs EXCEPT ![i].st = "sent", ![i].token = r[2], ![i].posts = 1]

GetTokenResponse ==
    /\ \E i \in DOMAIN reqs, resp \in TokenResponses :
          /\ reqs[i].st = "token"
          /\ GetTokenDone(i, resp)
    /\ UNCHANGED <<rev, settingsVars, imageUrl, aoiBounds, geojson, accessToken, tokenFetch,
                   nFetch, gets, mapView, uploadVars>>

\* ---------------------------------------------------- the imagery provider
StatusTexts == {"Unauthorized", "Bad Request"}
ImageResponses ==
    {[net |-> "error", ok |-> FALSE, statusText |-> ""],
     [net |-> "response", ok |-> TRUE, statusText |-> "OK"]} \cup
    [net : {"response"}, ok : {FALSE}, statusText : StatusTexts]

\* a faulty variant of ImageNotOk: the POST is sent again
ImageNotOkRetry(i, resp) ==
    /\ reqs' = [reqs EXCEPT ![i].posts = @ + 1, ![i].response = resp]
    /\ UNCHANGED <<imageUrl, mapView>>

\* !response.ok: throw new Error("Error fetching image: " + statusText),
\* caught and logged; the call ends
ImageNotOk(i, resp) ==
    /\ reqs' = [reqs EXCEPT ![i].st = "failed",
                            ![i].response = resp,
                            ![i].error = "Error fetching image: " \o resp.statusText]
    /\ UNCHANGED <<imageUrl, mapView>>

\* a faulty variant of ImageOk: the response of an earlier click is dropped
\* once a later click's image is shown
ImageOkLatestRequest(i, resp) ==
    /\ reqs' = [reqs EXCEPT ![i].st = "ok", ![i].response = resp]
    /\ imageUrl' = IF i > imageUrl THEN i ELSE imageUrl
    /\ mapView' = ViewAfterRender(imageUrl', aoiBounds, mapView)

\* response.ok: blob, createObjectURL, setImageUrl; App renders again
ImageOk(i, resp) ==
    /\ reqs' = [reqs EXCEPT ![i].st = "ok", ![i].response = resp]
    /\ imageUrl' = i
    /\ mapView' = ViewAfterRender(i, aoiBounds, mapView)

\* fetch rejected: caught and logged
ImageNetError(i, resp) ==
    /\ reqs' = [reqs EXCEPT ![i].st = "failed",
                            ![i].response = resp,
                            ![i].error = "TypeError: Failed to fetch"]
    /\ UNCHANGED <<imageUrl, mapView>>

\* the POST of request i comes back
ImageResponse ==
    /\ \E i \in DOMAIN reqs, resp \in ImageResponses :
          /\ reqs[i].st = "sent"
          /\ IF resp.net = "error" THEN ImageNetError(i, resp)
             ELSE IF resp.ok THEN ImageOk(i, resp)
             ELSE ImageNotOk(i, resp)
    /\ UNCHANGED <<rev, settingsVars, aoiBounds, geojson, accessToken, tokenFetch, nFetch,
                   gets, uploadVars>>

\* ------------------------------------------- date pickers, script buttons
\* <DatePicker onChange={(date) => setStartDate(date)}>; App renders again
SetStartDate ==
    /\ \E date \in PickedDates : startDate' = date
    /\ mapView' = ViewAfterRender(imageUrl, aoiBounds, mapView)
    /\ UNCHANGED <<rev, endDate, selectedEvalscript, imageUrl, aoiBounds,
                   geojson, fetchVars, uploadVars>>

\* <DatePicker onChange={(date) => setEndDate(date)}>
SetEndDate ==
    /\ \E date \in PickedDates : endDate' = date
    /\ mapView' = ViewAfterRender(imageUrl, aoiBounds, mapView)
    /\ UNCHANGED <<rev, startDate, selectedEvalscript, imageUrl, aoiBounds,
                   geojson, fetchVars, uploadVars>>

\* one button per catalog entry: onClick={() => setSelectedEvalscript(index)};
\* setting the index it already has renders nothing again
SetSelectedEvalscript ==
    /\ \E index \in 0..(Len(Catalog) - 1) :
          /\ selectedEvalscript' = index
          /\ mapView' = IF index = selectedEvalscript THEN mapView
                        ELSE ViewAfterRender(imageUrl, aoiBounds, mapView)
    /\ UNCHANGED <<rev, startDate, endDate, imageUrl, aoiBounds, geojson,
                   fetchVars, uploadVars>>

\* ------------------------------------------------------------ file upload
\* the revisions that have the file input and the Submit button
HasUpload(r) == r \in {"App", "part_001"}

\* mapRef.current: the map in App (MapContainer ref={mapRef}); still null in
\* part_001, where no element is given the ref
MapRefSet(r) == r = "App"

NoFile == "null"
Kml == "application/vnd.google-earth.kml+xml"
Zip == "application/zip"
\* file.type as the browser declares it ("" when it knows none)
FileTypes == {Kml, "application/json", "application/geo+json", Zip, "text/plain", ""}

\* a faulty variant of Dispatch: any other type is read as KML
DispatchKmlFallback(type) ==
    CASE type = Zip -> "zip"
      [] type \in {"application/json", "application/geo+json"} -> "geojson"
      [] OTHER -> "kml"

\* the if / else-if chain on file.type in the FileReader's onload
Dispatch(type) ==
    CASE type = Kml -> "kml"
      [] type \in {"application/json", "application/geo+json"} -> "geojson"
      [] type = Zip -> "zip"
      [] OTHER -> "unsupported"

\* an archive entry's name, split at its extension
EntryNames == {[base |-> "a", ext |-> ".kml"], [base |-> "notes", ext |-> ".txt"],
               [base |-> "b", ext |-> ".geojson"], [base |-> "c", ext |-> ".json"]}

EndsWith(name, suffix) == name.ext = suffix

\* Object.keys(content.files): distinct names, in the archive's order
Listings ==
    {l \in UNION {[1..k -> EntryNames] : k \in 0..MaxEntries} :
        \A i, j \in DOMAIN l : i # j => l[i] # l[j]}

\* the geometry an entry holds when it parses
EntryRing(name) ==
    CASE name.base = "a" -> << <<-2, -1>> >>
      [] name.base = "b" -> << <<1, 2>> >>
      [] OTHER           -> << <<1, -1>> >>

\* the geometry a single uploaded KML file holds when it parses
FileRings == {<< <<1, 2>> >>, << <<-2, 2>>, <<1, -1>> >>}

SetMin(S) == CHOOSE x \in S : \A y \in S : x <= y
SetMax(S) == CHOOSE x \in S : \A y \in S : x >= y

\* layer.getBounds() (Leaflet): <<southwest, northeast>>, each <<lat, lng>>
LayerBounds(ring) ==
    LET lngs == {ring[i][1] : i \in DOMAIN ring}
        lats == {ring[i][2] : i \in DOMAIN ring}
    IN << <<SetMin(lats), SetMin(lngs)>>, <<SetMax(lats), SetMax(lngs)>> >>

\* prev.extend(curr) (Leaflet LatLngBounds): the union of the two boxes
Extend(prev, curr) ==
    << <<MathMin(prev[1][1], curr[1][1]), MathMin(prev[1][2], curr[1][2])>>,
       <<MathMax(prev[2][1], curr[2][1]), MathMax(prev[2][2], curr[2][2])>> >>

\* array.reduce((prev, curr) => prev.extend(curr)) of a non-empty array: no
\* initial value, so the fold starts from the first element
RECURSIVE ExtendFrom(_, _)
ExtendFrom(acc, rest) ==
    IF rest = <<>> THEN acc
    ELSE ExtendFrom(Extend(acc, Head(rest)), Tail(rest))

ReduceExtend(boxes) == ExtendFrom(Head(boxes), Tail(boxes))

\* kmlLayer.toGeoJSON(): a FeatureCollection
FeatureCollection(ring) ==
    [kind |-> "FeatureCollection", type |-> "Polygon", ring |-> ring]

\* one handleFileSubmit call: where it stands, the type of the file it
\* reads, the archive's listing, what each entry's promise settled to, the
\* calls it made of a geospatial parser (omnivore, L.geoJSON), the arguments
\* it passed to mapRef.current.fitBounds, and what it threw or logged
IdleUpload ==
    [st |-> "idle", type |-> NoFile, entries |-> <<>>, results |-> <<>>,
     parses |-> 0, fit |-> <<>>, error |-> ""]
Pending == [st |-> "pending", b |-> <<>>]
NullResult == [st |-> "null", b |-> <<>>]
Rejected == [st |-> "rejected", b |-> <<>>]
BoundsResult(b) == [st |-> "bounds", b |-> b]

\* handleFileUpload: a file is chosen (or the dialog is cancelled)
HandleFileUpload ==
    /\ HasUpload(rev)
    /\ \E f \in FileTypes \cup {NoFile} :
          IF f = NoFile
          THEN UNCHANGED <<file, mapView>>
          ELSE /\ file' = f
               /\ mapView' = ViewAfterRender(imageUrl, aoiBounds, mapView)
    /\ UNCHANGED <<rev, settingsVars, imageUrl, aoiBounds, geojson, fetchVars, upload>>

\* handleFileSubmit up to fileReader.readAsArrayBuffer(file); one upload is
\* followed at a time
HandleFileSubmit ==
    /\ HasUpload(rev)
    /\ upload.st \in {"idle", "done", "failed"}
    /\ file # NoFile
    /\ upload' = [IdleUpload EXCEPT !.st = "reading", !.type = file]
    /\ UNCHANGED <<rev, settingsVars, imageUrl, aoiBounds, geojson, fetchVars, mapView, file>>

\* the onload handler ends by throwing: an unhandled rejection
Throws(u, what) == [u EXCEPT !.st = "failed", !.error = what]

\* if (bounds) mapRef.current.fitBounds(bounds), with a LatLngBounds
FitBounds(u, bounds) ==
    IF MapRefSet(rev)
    THEN [u EXCEPT !.st = "done", !.fit = Append(@, bounds)]
    ELSE Throws(u, "TypeError: mapRef.current is null")

\* the KML branch: parse, addTo(mapRef.current), getBounds, setGeojson, then
\* fitBounds; the render that follows setGeojson runs ImageLayer again
OnloadKml ==
    LET u == [upload EXCEPT !.parses = @ + 1] IN
    \/ /\ upload' = Throws(u, "omnivore.kml")
       /\ UNCHANGED <<geojson, aoiBounds, mapView>>
    \/ /\ ~MapRefSet(rev)
       /\ upload' = Throws(u, "TypeError: mapRef.current is null")
       /\ UNCHANGED <<geojson, aoiBounds, mapView>>
    \/ /\ MapRefSet(rev)
       /\ \E ring \in FileRings :
             /\ geojson' = FeatureCollection(ring)
             /\ upload' = FitBounds(u, LayerBounds(ring))
             /\ mapView' = ViewAfterRender(imageUrl, aoiBounds, LayerBounds(ring))
       /\ UNCHANGED aoiBounds

\* the GeoJSON branch: fileContent is an ArrayBuffer (readAsArrayBuffer), and
\* JSON.parse of it, i.e. of "[object ArrayBuffer]", throws a SyntaxError
OnloadGeojson ==
    /\ upload' = Throws(upload, "SyntaxError: JSON.parse")
    /\ UNCHANGED <<geojson, aoiBounds, mapView>>

\* the zip branch up to await zip.loadAsync(file)
OnloadZip ==
    /\ upload' = [upload EXCEPT !.st = "loading"]
    /\ UNCHANGED <<geojson, aoiBounds, mapView>>

\* the else branch: console.log, and bounds stays undefined
OnloadUnsupported ==
    /\ upload' = [upload EXCEPT !.st = "done", !.error = "Unsupported file type."]
    /\ UNCHANGED <<geojson, aoiBounds, mapView>>

\* fileReader.onload
FileReaderOnload ==
    /\ upload.st = "reading"
    /\ LET branch == Dispatch(upload.type) IN
       CASE branch = "kml"     -> OnloadKml
         [] branch = "geojson" -> OnloadGeojson
         [] branch = "zip"     -> OnloadZip
         [] OTHER              -> OnloadUnsupported
    /\ UNCHANGED <<rev, settingsVars, imageUrl, fetchVars, file>>

\* zip.loadAsync(file) settles: not an archive, or one with some listing;
\* every entry's async callback starts and waits for its text
ZipLoadAsync ==
    /\ upload.st = "loading"
    /\ \/ upload' = Throws(upload, "JSZip: not a zip file")
       \/ \E l \in Listings :
             upload' = [upload EXCEPT !.st = "parsing", !.entries = l,
                                      !.results = [k \in DOMAIN l |-> Pending]]
    /\ UNCHANGED <<rev, settingsVars, imageUrl, aoiBounds, geojson, fetchVars, mapView, file>>

\* what the callback of one entry returns once its text is there:
\* <<result, parser calls made>>; a recognised entry is parsed and added to
\* mapRef.current, any other gives null
EntryOutcomes(name) ==
    IF EndsWith(name, ".kml")
    THEN {<<Rejected, 1>>} \cup
         (IF MapRefSet(rev)
          THEN {<<BoundsResult(LayerBounds(EntryRing(name))), 1>>}
          ELSE {})
    ELSE IF EndsWith(name, ".geojson") \/ EndsWith(name, ".json")
    THEN {<<Rejected, 0>>, <<Rejected, 1>>} \cup
         (IF MapRefSet(rev)
          THEN {<<BoundsResult(LayerBounds(EntryRing(name))), 1>>}
          ELSE {})
    ELSE {<<NullResult, 0>>}

\* a faulty variant of Settled: the join goes on at the first settled entry
SettledSome(results) == \E k \in DOMAIN results : results[k] # Pending

\* Promise.all resolves when every promise has
Settled(results) == \A k \in DOMAIN results : results[k] # Pending
AnyRejected(results) == \E k \in DOMAIN results : results[k] = Rejected

\* the promise of entry k settles; Promise.all rejects at the first rejection
\* and the handler throws there (the callbacks still waiting run on, unseen
\* by the handler: they are not followed further)
EntrySettles ==
    /\ upload.st = "parsing"
    /\ \E k \in DOMAIN upload.results :
          /\ upload.results[k] = Pending
          /\ \E o \in EntryOutcomes(upload.entries[k]) :
               LET res == [upload.results EXCEPT ![k] = o[1]] IN
               upload' = [upload EXCEPT
                            !.results = res,
                            !.parses = @ + o[2],
                            !.error = IF o[1] = Rejected THEN "entry rejected" ELSE @,
                            !.st = IF o[1] = Rejected THEN "failed" ELSE "parsing"]
    /\ UNCHANGED <<rev, settingsVars, imageUrl, aoiBounds, geojson, fetchVars, mapView, file>>

\* boundsArray.filter(Boolean): the non-null results, in listing order
RECURSIVE FilterBoolean(_)
FilterBoolean(results) ==
    IF results = <<>> THEN <<>>
    ELSE IF Head(results).st = "bounds"
         THEN <<Head(results).b>> \o FilterBoolean(Tail(results))
         ELSE FilterBoolean(Tail(results))

\* App: bounds = boundsArray.filter(Boolean), reduced only when non-empty;
\* an empty array is truthy, so fitBounds is called with it, and Leaflet
\* throws "Bounds are not valid." without moving the map
ZipJoinApp(filtered) ==
    IF filtered = <<>>
    THEN /\ upload' = Throws([upload EXCEPT !.fit = Append(@, <<>>)],
                             "Error: Bounds are not valid.")
         /\ UNCHANGED mapView
    ELSE /\ upload' = FitBounds(upload, ReduceExtend(filtered))
         /\ mapView' = ReduceExtend(filtered)

\* part_001: reduce without an initial value throws a TypeError on an empty
\* array; mapRef.current is null for the fitBounds call
ZipJoinPart001(filtered) ==
    IF filtered = <<>>
    THEN /\ upload' = Throws(upload,
                        "TypeError: Reduce of empty array with no initial value")
         /\ UNCHANGED mapView
    ELSE /\ upload' = FitBounds(upload, ReduceExtend(filtered))
         /\ UNCHANGED mapView

\* await Promise.all(promises) resolved: every entry settled, none rejected
ZipJoin ==
    /\ upload.st = "parsing"
    /\ Settled(upload.results)
    /\ ~AnyRejected(upload.results)
    /\ IF rev = "App"
       THEN ZipJoinApp(FilterBoolean(upload.results))
       ELSE ZipJoinPart001(FilterBoolean(upload.results))
    /\ UNCHANGED <<rev, settingsVars, imageUrl, aoiBounds, geojson, fetchVars, file>>

\* ---------------------------------------------------------- specification
\* after the first render: App has issued its mount effect's GET
Init ==
    /\ rev \in Revisions
    /\ imageUrl = NoImage
    /\ aoiBounds = NullBounds
    /\ geojson = NullGeojson
    /\ accessToken = ""
    /\ tokenFetch = IF rev = "App" THEN "pending" ELSE "none"
    /\ reqs = <<>>
    /\ nFetch = 0
    /\ gets = IF rev = "App" THEN 1 ELSE 0
    /\ mapView = <<"initial">>
    /\ file = NoFile
    /\ upload = IdleUpload
    /\ startDate = InitialStartDate
    /\ endDate = InitialEndDate
    /\ selectedEvalscript = 0

\* drawing and fetching, in every revision
Next ==
    \/ DrawCreate
    \/ TokenResponse
    \/ GetImage
    \/ GetTokenResponse
    \/ ImageResponse

Spec == Init /\ [][Next]_vars

\* the ring drawn before the upload channel is followed
FirstRing == << <<1, -1>>, <<-2, 2>> >>

\* a state Spec reaches: the credential provider answered with a token,
\* FirstRing was drawn, "Fetch Image" was clicked once and the imagery
\* provider answered with an image
AfterFirstImage ==
    /\ imageUrl = 1
    /\ aoiBounds = DrawBounds(FirstRing)
    /\ geojson = Feature("Polygon", FirstRing)
    /\ accessToken = IF rev = "App" THEN "tok" ELSE ""
    /\ tokenFetch = IF rev = "App" THEN "done" ELSE "none"
    /\ reqs = << [st |-> "ok",
                  geometry |-> Geometry(Feature("Polygon", FirstRing)),
                  reqBounds |-> DrawBounds(FirstRing),
                  from |-> ToISOString(InitialStartDate),
                  to |-> ToISOString(InitialEndDate),
                  width |-> Width, height |-> Height,
                  evalscript |-> At(Catalog, 0).script,
                  token |-> "tok", posts |-> 1,
                  response |-> [net |-> "response", ok |-> TRUE, statusText |-> "OK"],
                  error |-> ""] >>
    /\ nFetch = 1
    /\ gets = 1
    /\ mapView = DrawBounds(FirstRing)
    /\ file = NoFile
    /\ upload = IdleUpload
    /\ startDate = InitialStartDate
    /\ endDate = InitialEndDate
    /\ selectedEvalscript = 0

\* the upload channel and drawing, in the revisions that have the channel,
\* from the first render or from a session that already shows an image
InitUpload ==
    /\ rev \in {r \in Revisions : HasUpload(r)}
    /\ \/ Init
       \/ AfterFirstImage

NextUpload ==
    \/ DrawCreate
    \/ HandleFileUpload
    \/ HandleFileSubmit
    \/ FileReaderOnload
    \/ ZipLoadAsync
    \/ EntrySettles
    \/ ZipJoin

SpecUpload == InitUpload /\ [][NextUpload]_vars

\* the draw handler on its own, over every ring up to MaxRing
NextDraw == DrawCreateAny

SpecDraw == Init /\ [][NextDraw]_vars

\* the geometry of the KML file uploaded after the first image
UploadedRing == << <<-2, 2>>, <<1, -1>> >>

\* a state SpecUpload reaches in App from AfterFirstImage: a KML file was
\* chosen, submitted and parsed while the first image is displayed
AfterKmlUpload ==
    /\ rev = "App"
    /\ imageUrl = 1
    /\ aoiBounds = DrawBounds(FirstRing)
    /\ geojson = FeatureCollection(UploadedRing)
    /\ accessToken = "tok"
    /\ tokenFetch = "done"
    /\ reqs = << [st |-> "ok",
                  geometry |-> Geometry(Feature("Polygon", FirstRing)),
                  reqBounds |-> DrawBounds(FirstRing),
                  from |-> ToISOString(InitialStartDate),
                  to |-> ToISOString(InitialEndDate),
                  width |-> Width, height |-> Height,
                  evalscript |-> At(Catalog, 0).script,
                  token |-> "tok", posts |-> 1,
                  response |-> [net |-> "response", ok |-> TRUE, statusText |-> "OK"],
                  error |-> ""] >>
    /\ nFetch = 1
    /\ gets = 1
    /\ mapView = DrawBounds(FirstRing)
    /\ file = Kml
    /\ upload = [IdleUpload EXCEPT !.st = "done", !.type = Kml, !.parses = 1,
                                   !.fit = <<LayerBounds(UploadedRing)>>]
    /\ startDate = InitialStartDate
    /\ endDate = InitialEndDate
    /\ selectedEvalscript = 0

\* what goes into a request: drawing, the date pickers, the script buttons
\* and fetching in App, in a session that shows its first image, with the
\* drawn AOI or with an AOI uploaded since
InitRequest ==
    /\ rev = "App"
    /\ \/ AfterFirstImage
       \/ AfterKmlUpload

NextRequest ==
    \/ DrawCreate
    \/ SetStartDate
    \/ SetEndDate
    \/ SetSelectedEvalscript
    \/ GetImage
    \/ ImageResponse

SpecRequest == InitRequest /\ [][NextRequest]_vars

\* -------------------------------------------------------------- properties

\* C1: a click on "Fetch Image" while geojson is null issues no request of
\* any kind (no POST, no credential GET) and leaves the image, the AOI
\* geometry and the AOI bounds as they were, in every revision.
C1_NoAoiNoNetwork ==
    [][(nFetch' # nFetch /\ geojson = NullGeojson)
         => /\ reqs' = reqs
            /\ gets' = gets
            /\ imageUrl' = imageUrl
            /\ geojson' = geojson
            /\ aoiBounds' = aoiBounds]_vars

\* part_001 (the revision whose getImage fetches the credential itself) was
\* clicked with no AOI
C1_Witness ==
    /\ rev = "part_001"
    /\ nFetch > 0
    /\ geojson = NullGeojson

\* C2: the image of a successful fetch is overlaid at the bounds that were
\* current when its getImage call was made, whatever was drawn afterwards
\* (stated for drawn rings that are not empty).
C2_ImageAtRequestBounds ==
    (/\ Overlay(imageUrl, aoiBounds) # Undefined
     /\ reqs[imageUrl].geometry.ring # <<>>
     /\ geojson.ring # <<>>)
        => Overlay(imageUrl, aoiBounds).bounds = reqs[imageUrl].reqBounds

\* C3: a POST is only ever sent with a credential that was obtained: never
\* when the token request failed, was refused, or held no token field.
C3_NoPostWithoutCredential ==
    \A i \in DOMAIN reqs :
        reqs[i].posts > 0 => reqs[i].token \in {"tok", "static"}

\* C4: for a non-empty ring the stored box has southwest <= northeast in both
\* components and holds every coordinate of the ring, latitude against
\* latitude and longitude against longitude.
C4_BoxCoversRing ==
    (geojson # NullGeojson /\ geojson.ring # <<>>)
        => LET sw == aoiBounds[1]
               ne == aoiBounds[2]
               ring == geojson.ring
           IN /\ sw[1] <= ne[1]
              /\ sw[2] <= ne[2]
              /\ \A i \in DOMAIN ring :
                    /\ sw[1] <= ring[i][2] /\ ring[i][2] <= ne[1]
                    /\ sw[2] <= ring[i][1] /\ ring[i][1] <= ne[2]

\* a ring of three coordinates that differ in both axes was drawn
C4_Witness ==
    /\ geojson # NullGeojson
    /\ Len(geojson.ring) = 3
    /\ \E i, j \in DOMAIN geojson.ring :
          /\ geojson.ring[i][1] # geojson.ring[j][1]
          /\ geojson.ring[i][2] # geojson.ring[j][2]

\* C5: an empty ring is refused: the seed box (+Infinity southwest,
\* -Infinity northeast) is never stored as the AOI bounds and a shape with
\* an empty ring never becomes the AOI.
C5_EmptyRingRefused ==
    /\ aoiBounds # << <<Infinity, Infinity>>, <<NegInfinity, NegInfinity>> >>
    /\ (geojson # NullGeojson => geojson.ring # <<>>)

\* C6: once handleFileSubmit has finished with the archive [a.kml (B1),
\* notes.txt, b.geojson (B2)], the AOI bounds are the union of B1 and B2.
C6_ArchiveBoundsAreUnion ==
    (/\ upload.st = "done"
     /\ upload.type = Zip
     /\ upload.entries = << [base |-> "a", ext |-> ".kml"],
                            [base |-> "notes", ext |-> ".txt"],
                            [base |-> "b", ext |-> ".geojson"] >>)
        => aoiBounds = Extend(upload.results[1].b, upload.results[3].b)

\* C7: an archive with entries, none of them ending in .kml, .geojson or
\* .json, ends in an error, and fitBounds is not called for it.
C7_NoRecognizedEntriesIsError ==
    (/\ upload.type = Zip
     /\ upload.st \in {"done", "failed"}
     /\ upload.entries # <<>>
     /\ \A k \in DOMAIN upload.entries :
           upload.entries[k].ext \notin {".kml", ".geojson", ".json"})
        => /\ upload.st = "failed"
           /\ upload.fit = <<>>

\* C8: when the file read has a declared type that is none of the KML,
\* JSON, GeoJSON and zip types, the handler reports "Unsupported file type."
\* and changes nothing: not the AOI geometry, the AOI bounds, the image or
\* the map view; it calls no parser and no fitBounds.
C8_UnsupportedChangesNothing ==
    [][(/\ upload.st = "reading"
        /\ upload'.st # "reading"
        /\ upload.type \notin {"application/vnd.google-earth.kml+xml",
                               "application/json", "application/geo+json",
                               "application/zip"})
         => /\ upload'.st = "done"
            /\ upload'.error = "Unsupported file type."
            /\ upload'.parses = 0
            /\ upload'.fit = <<>>
            /\ geojson' = geojson
            /\ aoiBounds' = aoiBounds
            /\ imageUrl' = imageUrl
            /\ mapView' = mapView]_vars

\* a text/plain file was submitted and read while an image was displayed
C8_Witness ==
    /\ upload.st = "done"
    /\ upload.type = "text/plain"
    /\ upload.error = "Unsupported file type."
    /\ Overlay(imageUrl, aoiBounds) # Undefined

\* C9: when the POST comes back with a non-success status, the call ends
\* with an error that carries the status text, has issued exactly one POST
\* and issues no other, and the image and the AOI stay as they were.
C9_UpstreamErrorOnce ==
    [][\A i \in DOMAIN reqs :
         (/\ reqs[i].st = "sent"
          /\ reqs'[i].response.net = "response"
          /\ ~reqs'[i].response.ok)
           => /\ reqs'[i].st = "failed"
              /\ reqs'[i].error =
                    "Error fetching image: " \o reqs'[i].response.statusText
              /\ reqs'[i].posts = 1
              /\ Len(reqs') = Len(reqs)
              /\ \A j \in DOMAIN reqs : j # i => reqs'[j] = reqs[j]
              /\ imageUrl' = imageUrl
              /\ geojson' = geojson
              /\ aoiBounds' = aoiBounds]_vars

\* a request was refused ("Unauthorized") while an earlier image was shown
C9_Witness ==
    /\ imageUrl # NoImage
    /\ \E i \in DOMAIN reqs :
          /\ reqs[i].st = "failed"
          /\ reqs[i].response.statusText = "Unauthorized"
          /\ reqs[i].error = "Error fetching image: Unauthorized"

\* C10: after a single-file upload has succeeded, the AOI bounds are the
\* bounds of the uploaded geometry (not null, not those of an earlier shape).
C10_UploadStoresBounds ==
    geojson.kind = "FeatureCollection"
        => /\ aoiBounds # NullBounds
           /\ aoiBounds = LayerBounds(geojson.ring)

\* C11: a step that selects a new AOI while an image is displayed (a shape
\* drawn, a single file's geometry stored, an archive's upload finished)
\* leaves the current image as it was, and the overlay rendered after the
\* step still shows that image.
C11_AoiSelectionKeepsImage ==
    [][(/\ imageUrl # NoImage
        /\ aoiBounds # NullBounds
        /\ \/ geojson' # geojson
           \/ aoiBounds' # aoiBounds
           \/ (upload.st = "parsing" /\ upload'.st = "done"))
         => /\ imageUrl' = imageUrl
            /\ Overlay(imageUrl', aoiBounds') # Undefined
            /\ Overlay(imageUrl', aoiBounds').url = imageUrl]_vars

\* with the image of the first fetch displayed, a KML file was uploaded and
\* then an archive whose union was fitted; the image is still displayed
C11_Witness ==
    /\ imageUrl = 1
    /\ Overlay(imageUrl, aoiBounds) # Undefined
    /\ geojson.kind = "FeatureCollection"
    /\ upload.type = Zip
    /\ upload.st = "done"
    /\ upload.fit # <<>>

\* C12: the box the draw handler stored for a ring is the box it computes
\* for every reordering of that ring's coordinates.
C12_FoldOrderInvariant ==
    geojson # NullGeojson
        => \A p \in Permutations(DOMAIN geojson.ring) :
              DrawBounds([i \in DOMAIN geojson.ring |-> geojson.ring[p[i]]])
                 = aoiBounds

\* a ring of three coordinates was drawn whose first and last differ in
\* both axes, so that reordering changes what the fold sees last
C12_Witness ==
    /\ geojson # NullGeojson
    /\ Len(geojson.ring) = 3
    /\ geojson.ring[1][1] # geojson.ring[3][1]
    /\ geojson.ring[1][2] # geojson.ring[3][2]
    /\ aoiBounds = DrawBounds(geojson.ring)

\* C13: for a ring of [lng, lat] pairs that is not empty, the stored box is
\* <<[min lat, min lng], [max lat, max lng]>>, latitude first; a ring of one
\* coordinate [lng, lat] gives [lat, lng] in both corners.
C13_BoxLatFirstAndTight ==
    (geojson # NullGeojson /\ geojson.ring # <<>>)
        => LET ring == geojson.ring
               lngs == {ring[i][1] : i \in DOMAIN ring}
               lats == {ring[i][2] : i \in DOMAIN ring}
           IN /\ aoiBounds[1] = <<SetMin(lats), SetMin(lngs)>>
              /\ aoiBounds[2] = <<SetMax(lats), SetMax(lngs)>>
              /\ Len(ring) = 1
                    => /\ aoiBounds[1] = <<ring[1][2], ring[1][1]>>
                       /\ aoiBounds[2] = <<ring[1][2], ring[1][1]>>

\* a ring was drawn whose box has corners that are no coordinate of the
\* ring: the minima (and the maxima) come from different coordinates
C13_Witness ==
    /\ geojson # NullGeojson
    /\ Len(geojson.ring) >= 2
    /\ \A i \in DOMAIN geojson.ring :
          /\ <<geojson.ring[i][2], geojson.ring[i][1]>> # aoiBounds[1]
          /\ <<geojson.ring[i][2], geojson.ring[i][1]>> # aoiBounds[2]

\* C14: a click on "Fetch Image" that passes the guard adds a request and
\* leaves every earlier request as it was, also those still in flight; a
\* request in flight ends only with its own response; a successful response
\* to request i makes i the current image whichever request was clicked
\* first, and nothing else changes the current image.
C14_LastResponseWins ==
    [][/\ (nFetch' # nFetch)
            => /\ \A i \in DOMAIN reqs : reqs'[i] = reqs[i]
               /\ (geojson # NullGeojson /\ (rev = "App" => accessToken = "tok"))
                     => /\ Len(reqs') = Len(reqs) + 1
                        /\ reqs'[Len(reqs')].st \in {"token", "sent"}
       /\ \A i \in DOMAIN reqs :
             /\ (reqs[i].st \in {"token", "sent"} /\ reqs'[i].st \in {"ok", "failed"})
                   => reqs'[i].response.net # "none"
             /\ (reqs[i].st = "sent" /\ reqs'[i].st = "ok") => imageUrl' = i
       /\ (imageUrl' # imageUrl)
            => \E i \in DOMAIN reqs : reqs[i].st = "sent" /\ reqs'[i].st = "ok"]_vars

\* two requests were in flight together and both succeeded; the response to
\* the first click arrived after the response to the second and is shown
C14_Witness ==
    /\ Len(reqs) = 2
    /\ reqs[1].st = "ok"
    /\ reqs[2].st = "ok"
    /\ imageUrl = 1

\* C15: while the entries of an archive settle, in any order, no bounds are
\* fitted and the map view is not moved; when fitBounds is called with a
\* box, every entry has resolved, and the box is the one obtained from the
\* listing alone, by extending over its recognised entries in listing order
\* (which is also the smallest box around all of them).
C15_JoinBeforeUnion ==
    [][/\ (upload.st = "parsing" /\ upload'.st = "parsing" /\ upload' # upload)
            => /\ upload'.fit = upload.fit
               /\ mapView' = mapView
       /\ (/\ upload.type = Zip
           /\ upload.st = "parsing"
           /\ upload'.fit # upload.fit
           /\ upload'.fit[Len(upload'.fit)] # <<>>)
            => LET rec == SelectSeq(upload.entries,
                             LAMBDA n : n.ext \in {".kml", ".geojson", ".json"})
                   boxes == [k \in DOMAIN rec |-> LayerBounds(EntryRing(rec[k]))]
                   all == {boxes[k] : k \in DOMAIN boxes}
                   fitted == upload'.fit[Len(upload'.fit)]
               IN /\ \A k \in DOMAIN upload.results :
                        upload.results[k].st \in {"bounds", "null"}
                  /\ fitted = ExtendFrom(boxes[1], Tail(boxes))
                  /\ fitted[1] = <<SetMin({b[1][1] : b \in all}),
                                   SetMin({b[1][2] : b \in all})>>
                  /\ fitted[2] = <<SetMax({b[2][1] : b \in all}),
                                   SetMax({b[2][2] : b \in all})>>]_vars

\* an archive of three entries, two of them recognised, was joined, and the
\* box fitted is the box of neither entry alone
C15_Witness ==
    /\ upload.type = Zip
    /\ upload.st = "done"
    /\ Len(upload.entries) = 3
    /\ Len(upload.fit) = 1
    /\ \E j, k \in DOMAIN upload.results :
          /\ j # k
          /\ upload.results[j].st = "bounds"
          /\ upload.results[k].st = "bounds"
          /\ upload.fit[1] # upload.results[j].b
          /\ upload.fit[1] # upload.results[k].b

\* C16: no failure is permanent and none is retried by the program: a step
\* that ends a request in failure issues no GET and no POST; a click on
\* "Fetch Image" made again after an earlier click, with an AOI set and the
\* credential fetch made on mount no longer outstanding (ended, well or
\* badly), starts a request; and a successful response to a request sets
\* the image.
C16_RetryFetches ==
    [][/\ \A i \in DOMAIN reqs :
             (reqs[i].st = "sent" /\ reqs'[i].st = "failed")
                => /\ gets' = gets
                   /\ Len(reqs') = Len(reqs)
                   /\ \A j \in DOMAIN reqs : reqs'[j].posts = reqs[j].posts
       /\ (/\ nFetch' # nFetch
           /\ nFetch > 0
           /\ geojson # NullGeojson
           /\ geojson.ring # <<>>
           /\ tokenFetch # "pending")
            => /\ Len(reqs') = Len(reqs) + 1
               /\ reqs'[Len(reqs')].st \in {"token", "sent"}
       /\ \A i \in DOMAIN reqs :
             (reqs[i].st = "sent" /\ reqs'[i].response.ok) => imageUrl' = i]_vars

\* C17: the selected index is always an index of the catalog; a request
\* that getImage adds carries the geometry of the AOI, the two dates and the
\* script text of the selected entry as they are at the click, and a
\* 512x512 output; a change of the dates, the selection or the AOI sends
\* nothing, and nothing ever changes what a request carries.
C17_RequestCarriesCurrentInputs ==
    [][/\ selectedEvalscript' \in 0..(Len(Catalog) - 1)
       /\ (Len(reqs') = Len(reqs) + 1)
            => LET q == reqs'[Len(reqs')] IN
               /\ q.geometry = [type |-> geojson.type, ring |-> geojson.ring]
               /\ q.from = ToISOString(startDate)
               /\ q.to = ToISOString(endDate)
               /\ q.evalscript = Catalog[selectedEvalscript + 1].script
               /\ q.width = 512
               /\ q.height = 512
       /\ (\/ startDate' # startDate
           \/ endDate' # endDate
           \/ selectedEvalscript' # selectedEvalscript
           \/ geojson' # geojson)
            => /\ reqs' = reqs
               /\ gets' = gets
       /\ \A i \in DOMAIN reqs :
             /\ reqs'[i].geometry = reqs[i].geometry
             /\ reqs'[i].from = reqs[i].from
             /\ reqs'[i].to = reqs[i].to
             /\ reqs'[i].evalscript = reqs[i].evalscript
             /\ reqs'[i].width = reqs[i].width
             /\ reqs'[i].height = reqs[i].height
             /\ reqs'[i].posts <= 1]_vars

====
